---------------------------- MODULE Spec2Model ----------------------------
(***************************************************************************)
(* Verification model of Lucretiel/bobbin.                                 *)
(*                                                                         *)
(*  - the bounded-concurrency scheduler of the frontend: promiseChain      *)
(*    (common.ts) and promiseRunner (promiseChain.tsx / promiseChain.jsx)  *)
(*  - the thread resolver of the Go backend: GenerateThread and the        *)
(*    api package it calls.                                                *)
(***************************************************************************)
EXTENDS Integers, Sequences, FiniteSets, TLC

\* ------------------------------------------------------------------ bounds

\* Number of userRunners handed to the schedulers in one behaviour.
MaxTasks == 3

\* Largest maxConcurrent a scheduler is constructed with.
MaxConcurrent == 2

\* The scheduler instances alive at once (two calls of promiseChain(n)).
Inst == {1, 2}

TaskIds == 1..MaxTasks

\* Number of tweets the remote service knows (ids 1..MaxTweets).
MaxTweets == 3

\* api.TweetId values; NoTweet stands for a nil *TweetId.
Tweets == 1..MaxTweets
NoTweet == 0

\* Number of tweet ids that caches and pages of the Merge study, and the
\* bodies of HTTP answers, range over.
MaxMergeIds == 2

\* Calls of the function requireChanged returns.
MaxWrappedCalls == 4

\* Effects (and so /api/thread fetches) one ThreadPage runs.
MaxFetches == 3

MergeIds == 1..MaxMergeIds

\* api.UserId values (two authors: the same one or another one);
\* NoUser stands for a nil *UserId.
Users == {1, 2}
NoUser == 0

\* ------------------------------------------------------------------ state

VARIABLES
    \* --- scheduler (one closure per instance)
    maxConcurrent,  \* [Inst -> Nat]  the constructor argument of each instance
    runningTasks,   \* [Inst -> Int]  `let runningTasks = 0`
    queue,          \* [Inst -> Seq(TaskIds)]  `queue` / `waitingTasks`: runners
    nextTask,       \* the next userRunner to be passed in (ids follow call order)
    inst,           \* [TaskIds -> Inst \cup {0}]  instance a task was passed to
    phase,          \* [TaskIds -> phase of the task], see Phases
    outcome,        \* [TaskIds -> outcome of the promise userRunner returned]
    returned,       \* [TaskIds -> state of the promise the scheduler returned]
    startOrder,     \* [Inst -> Seq(TaskIds)]  order in which userRunners ran
    \* --- the remote service (fixed during one resolution)
    parent,         \* [Tweets -> Tweets \cup {NoTweet}]  in_reply_to_status_id
    author,         \* [Tweets -> Users]  user.id
    \* --- GenerateThread(tail)
    tail,           \* the argument
    localStore,     \* api.Tweets: map TweetId -> Tweet
    result,         \* api.Tweets: map TweetId -> Tweet
    currentTweetId, \* the loop variable
    status,         \* "walking" | "ok" (result, nil) | "error" (nil, err)
    err,            \* the call whose error was returned: "none" | "direct" | "lookahead"
    thread,         \* the returned map as its caller ranges over it
    hops,           \* loop iterations started so far (history, saturating)
    calls,          \* the API calls the latest getTweet made (history)
    run,            \* 1: first call of GenerateThread(tail), 2: second call
    warm,           \* ids the first call fetched or stored (history)
    lookups,        \* api.GetTweet calls of this resolution (history)
    lookaheads,     \* api.GetUserTweets calls of this resolution (history)
    \* --- Tweets.Merge on its own: a cache that receives two pages
    mA,             \* the cache that receives page P, then page Q
    mB,             \* a cache with the same start that receives Q, then P
    mP,             \* page P (api.Tweets)
    mQ,             \* page Q (api.Tweets)
    mStep,          \* pages merged so far: 0, 1 or 2
    \* --- one call of api.GetTweets / api.GetUserTweets / api.GetTweet
    apiReq,         \* the function called: "GetTweets" | "GetUserTweets" | "GetTweet"
    apiResp,        \* what client.Do(request) produces
    apiOut,         \* what GetTweets / GetUserTweets returned, once done
    apiId,          \* the id argument of GetTweet
    tweetOut,       \* what GetTweet returned, once done
    \* --- ThreadPage (React component) and its /api/thread fetches
    props,          \* the props the latest effect ran for: [head, tail]
    mounted,        \* the component is mounted
    threadTweetIds, \* React state: NullState or content.thread
    authorState,    \* React state `author`: NullState or content.author
    fetches,        \* every fetch issued so far: [query, phase]
    \* --- thread.ts: the tweet containers of the thread page
    loaded,         \* per container: "no" | "ok" | "failed" (createThreadItem)
    widget,         \* per container: what createTweet gave (WidgetOutcomes)
    hidden,         \* per container: its class list holds "hidden"
    failureShown,   \* per container: its tweet-failure element is shown
    revealOrder,    \* containers in the order threadTask un-hid them
    loadOrder,      \* containers in the order their loads finished (history)
    endMessage,     \* end_element.innerText
    \* --- requireChanged(func): the function it returns
    cache,          \* the closure variable: NullCache or [arg, ret]
    wrappedCalls,   \* calls of the returned function so far
    lastCall,       \* the latest call and the one before it (history)
    \* --- what each userRunner does when it is called
    runnerKind,     \* per task: "promise" | "throws" | "value"
    \* --- TweetList.jsx with its EmbeddedTweet children (Tweet.jsx)
    cancel,         \* per tweet: EmbeddedTweet.cancel
    created,        \* per tweet: createTweet was asked for (history)
    cancelled,      \* TweetList.cancelled: cancelFunc has run
    loadingTask,    \* per tweet: the loadingTask its tweetLoading call made
    undoTask,       \* per tweet: `this.loadingTask.then(...)` of that call
    rendered,       \* the calls of props.fullyRendered so far (history)
    \* --- TweetList.tsx with its EmbeddedTweet children (Tweet.tsx)
    tweetTask,      \* per tweet: "none" | "pending" | "fulfilled" | "rejected"
    isRendered,     \* per tweet: the state isRendered of EmbeddedTweet
    renderedDue,    \* per tweet: its effect calling rendered() is to run
    tweetsRendered, \* the state tweetsRendered of TweetList
    fullyDue,       \* the effect calling fullyRendered() is to run
    hookReports     \* the values passed to fullyRendered so far

schedVars == <<maxConcurrent, runningTasks, queue, nextTask, inst, phase,
               outcome, returned, startOrder>>

threadVars == <<parent, author, tail, localStore, result, currentTweetId,
                status, err, thread, hops, calls, run, warm, lookups,
                lookaheads>>

mergeVars == <<mA, mB, mP, mQ, mStep>>

apiVars == <<apiReq, apiResp, apiOut, apiId, tweetOut>>

pageVars == <<props, mounted, threadTweetIds, authorState, fetches>>

loadVars == <<loaded, widget, hidden, failureShown, revealOrder, loadOrder,
              endMessage>>

changedVars == <<cache, wrappedCalls, lastCall>>

kindVars == <<runnerKind>>

listVars == <<cancel, created, cancelled, loadingTask, undoTask, rendered>>

hookVars == <<tweetTask, isRendered, renderedDue, tweetsRendered, fullyDue,
              hookReports>>

vars == <<schedVars, threadVars, mergeVars,
         apiVars, pageVars, loadVars, changedVars, kindVars, listVars, hookVars>>

\* "new":       not yet passed to a scheduler
\* "waiting":   its runner sits in the queue
\* "running":   userRunner() was called, its promise is pending
\* "settled":   its promise settled; the finally callback has not run yet
\* "completed": the finally callback (taskComplete) has run
Phases == {"new", "waiting", "running", "settled", "completed"}

Pending == [kind |-> "pending", val |-> 0]

\* What a user task can settle with: its own value or its own reason.
Outcomes(t) == {[kind |-> "fulfilled", val |-> t], [kind |-> "rejected", val |-> t]}


\* ------------------------------------------------- promiseChain: helpers

\* A single module-level counter and queue shared by every instance.
SharedCell(i) == 1

\* The closure state of one promiseChain(maxConcurrent) call: every call
\* creates its own `runningTasks` and `queue`, so instance i owns cell i.
Cell(i) == i

\* Admission off by one: `runningTasks > maxConcurrent`.
FullOffByOne(i) == runningTasks[Cell(i)] > maxConcurrent[i]

\* The admission test of the returned function: `runningTasks >= maxConcurrent`.
Full(i) == runningTasks[Cell(i)] >= maxConcurrent[i]

\* Array.prototype.pop: the newest runner and the rest of the queue.
pop(q) == [runner |-> q[Len(q)], rest |-> SubSeq(q, 1, Len(q) - 1)]

\* Array.prototype.shift: the oldest runner and the rest of the queue.
shift(q) == [runner |-> Head(q), rest |-> Tail(q)]

\* `runner()`: userRunner is called; its promise is pending from here on.
\* ph, so are the phase map and start orders the caller has built so far.
runner(i, t, ph, so) ==
    /\ phase' = [ph EXCEPT ![t] = "running"]
    /\ startOrder' = [so EXCEPT ![i] = Append(@, t)]

\* taskComplete that takes the oldest runner off the queue and never calls it.
taskCompleteDropRunner(i, ph) ==
    IF Len(queue[Cell(i)]) > 0
    THEN /\ queue' = [queue EXCEPT ![Cell(i)] = Tail(@)]
         /\ phase' = ph
         /\ UNCHANGED <<runningTasks, startOrder>>
    ELSE /\ runningTasks' = [runningTasks EXCEPT ![Cell(i)] = @ - 1]
         /\ phase' = ph
         /\ UNCHANGED <<queue, startOrder>>

\* taskComplete without the dequeue: the slot is given back, nobody is woken.
taskCompleteNoDequeue(i, ph) ==
    /\ runningTasks' = [runningTasks EXCEPT ![Cell(i)] = @ - 1]
    /\ phase' = ph
    /\ UNCHANGED <<queue, startOrder>>

\* taskComplete of promiseChain: start the oldest waiting runner in the slot
\* that became free, or give the slot back.
taskComplete(i, ph) ==
    IF Len(queue[Cell(i)]) > 0 /\ runningTasks[Cell(i)] <= maxConcurrent[i]
    THEN LET s == shift(queue[Cell(i)]) IN
         /\ queue' = [queue EXCEPT ![Cell(i)] = s.rest]
         /\ runner(i, s.runner, ph, startOrder)
         /\ UNCHANGED runningTasks
    ELSE /\ runningTasks' = [runningTasks EXCEPT ![Cell(i)] = @ - 1]
         /\ phase' = ph
         /\ UNCHANGED <<queue, startOrder>>

\* taskComplete of promiseRunner (promiseChain.tsx): the test is only
\* `runningTasks <= maxConcurrent`; an empty queue falls into the THEN branch,
\* where nothing happens.
taskCompleteRunner(i, ph) ==
    IF runningTasks[Cell(i)] <= maxConcurrent[i]
    THEN IF Len(queue[Cell(i)]) > 0
         THEN LET s == shift(queue[Cell(i)]) IN
              /\ queue' = [queue EXCEPT ![Cell(i)] = s.rest]
              /\ runner(i, s.runner, ph, startOrder)
              /\ UNCHANGED runningTasks
         ELSE /\ phase' = ph
              /\ UNCHANGED <<queue, startOrder, runningTasks>>
    ELSE /\ runningTasks' = [runningTasks EXCEPT ![Cell(i)] = @ - 1]
         /\ phase' = ph
         /\ UNCHANGED <<queue, startOrder>>

\* `.then(cb)` in place of `.finally(cb)`: cb runs on fulfilment only.
ThenCalls(o) == o.kind = "fulfilled"

\* Promise.prototype.finally(cb): cb is called whatever the outcome is ...
FinallyCalls(o) == o.kind \in {"fulfilled", "rejected"}

\* `.catch(ignoreErr)` in the chain: a rejection is turned into null.
CatchIgnoreResult(o) ==
    IF o.kind = "rejected" THEN [kind |-> "fulfilled", val |-> 0] ELSE o

\* ... and the promise it returns settles as the original one did
\* (taskComplete returns undefined and does not throw).
FinallyResult(o) == o

\* ------------------------------------------------- promiseChain: actions

InitSched ==
    /\ maxConcurrent \in [Inst -> 1..MaxConcurrent]
    /\ runningTasks = [i \in Inst |-> 0]
    /\ queue = [i \in Inst |-> <<>>]
    /\ nextTask = 1
    /\ inst = [t \in TaskIds |-> 0]
    /\ phase = [t \in TaskIds |-> "new"]
    /\ outcome = [t \in TaskIds |-> Pending]
    /\ returned = [t \in TaskIds |-> Pending]
    /\ startOrder = [i \in Inst |-> <<>>]

\* scheduler(userRunner): the executor of the returned promise runs at once.
Schedule(i) ==
    /\ nextTask <= MaxTasks
    /\ LET t == nextTask IN
       /\ inst' = [inst EXCEPT ![t] = i]
       /\ nextTask' = nextTask + 1
       /\ IF Full(i)
          THEN /\ queue' = [queue EXCEPT ![Cell(i)] = Append(@, t)]
               /\ phase' = [phase EXCEPT ![t] = "waiting"]
               /\ UNCHANGED <<runningTasks, startOrder>>
          ELSE /\ runningTasks' = [runningTasks EXCEPT ![Cell(i)] = @ + 1]
               /\ runner(i, t, phase, startOrder)
               /\ UNCHANGED queue
    /\ UNCHANGED <<maxConcurrent, outcome, returned>>
    /\ UNCHANGED <<threadVars, mergeVars, apiVars, pageVars,
                   loadVars, changedVars, kindVars, listVars, hookVars>>

\* The promise userRunner returned settles (the work is done or has failed).
Settle(t) ==
    /\ phase[t] = "running"
    /\ \E o \in Outcomes(t) : outcome' = [outcome EXCEPT ![t] = o]
    /\ phase' = [phase EXCEPT ![t] = "settled"]
    /\ UNCHANGED <<maxConcurrent, runningTasks, queue, nextTask, inst,
                   returned, startOrder>>
    /\ UNCHANGED <<threadVars, mergeVars, apiVars, pageVars,
                   loadVars, changedVars, kindVars, listVars, hookVars>>

\* The reaction `.finally(taskComplete)` runs for a settled task.
Complete(t) ==
    /\ phase[t] = "settled"
    /\ IF FinallyCalls(outcome[t])
       THEN taskComplete(inst[t], [phase EXCEPT ![t] = "completed"])
       ELSE /\ phase' = [phase EXCEPT ![t] = "completed"]
            /\ UNCHANGED <<runningTasks, queue, startOrder>>
    /\ UNCHANGED <<maxConcurrent, nextTask, inst, outcome, returned>>
    /\ UNCHANGED <<threadVars, mergeVars, apiVars, pageVars,
                   loadVars, changedVars, kindVars, listVars, hookVars>>

\* The same reaction in promiseRunner (promiseChain.tsx).
CompleteRunner(t) ==
    /\ phase[t] = "settled"
    /\ IF FinallyCalls(outcome[t])
       THEN taskCompleteRunner(inst[t], [phase EXCEPT ![t] = "completed"])
       ELSE /\ phase' = [phase EXCEPT ![t] = "completed"]
            /\ UNCHANGED <<runningTasks, queue, startOrder>>
    /\ UNCHANGED <<maxConcurrent, nextTask, inst, outcome, returned>>
    /\ UNCHANGED <<threadVars, mergeVars, apiVars, pageVars,
                   loadVars, changedVars, kindVars, listVars, hookVars>>

\* The promise handed back by the scheduler, resolved with
\* `task.finally(taskComplete)`, settles once that promise has.
Deliver(t) ==
    /\ phase[t] = "completed"
    /\ returned[t] = Pending
    /\ returned' = [returned EXCEPT ![t] = FinallyResult(outcome[t])]
    /\ UNCHANGED <<maxConcurrent, runningTasks, queue, nextTask, inst, phase,
                   outcome, startOrder>>
    /\ UNCHANGED <<threadVars, mergeVars, apiVars, pageVars,
                   loadVars, changedVars, kindVars, listVars, hookVars>>

\* No request was sent: no statuses/lookup, no statuses/user_timeline.
NoCalls == [lookup |-> {}, timeline |-> {}]

\* api.Tweets{}: the empty map.
EmptyTweets == [id \in {} |-> NoTweet]

\* No resolution is going on while the scheduler is examined.
IdleThread ==
    /\ parent = <<>>
    /\ author = <<>>
    /\ tail = NoTweet
    /\ localStore = EmptyTweets
    /\ result = EmptyTweets
    /\ currentTweetId = NoTweet
    /\ status = "idle"
    /\ err = "none"
    /\ thread = <<>>
    /\ hops = 0
    /\ calls = NoCalls
    /\ run = 0
    /\ warm = {}
    /\ lookups = 0
    /\ lookaheads = 0

\* No cache is being merged into.
IdleMerge ==
    /\ mA = EmptyTweets
    /\ mB = EmptyTweets
    /\ mP = EmptyTweets
    /\ mQ = EmptyTweets
    /\ mStep = 0

\* What the api functions have returned before they are called: nothing.
NotCalled == [done |-> FALSE, err |-> "none", tweets |-> EmptyTweets]

\* `null` as the value of the states threadTweetIds and author.
NullState == [head |-> 0, tail |-> 0]

\* No ThreadPage is rendered.
IdlePage ==
    /\ props = NullState
    /\ mounted = FALSE
    /\ threadTweetIds = NullState
    /\ authorState = NullState
    /\ fetches = <<>>

\* The thread page script has not touched a container.
IdleLoad ==
    /\ loaded = [t \in TaskIds |-> "no"]
    /\ widget = [t \in TaskIds |-> "none"]
    /\ hidden = [t \in TaskIds |-> FALSE]
    /\ failureShown = [t \in TaskIds |-> FALSE]
    /\ revealOrder = <<>>
    /\ loadOrder = <<>>
    /\ endMessage = "Loading Tweets..."

\* `let cache = null`.
NullCache == [arg |-> 0, ret |-> 0]

\* No call of the returned function has been made.
NoCall ==
    [arg |-> 0, called |-> FALSE, out |-> [kind |-> "none", val |-> 0],
     prevArg |-> 0, prevOut |-> [kind |-> "none", val |-> 0]]

\* requireChanged(func) has just returned its function.
IdleChanged ==
    /\ cache = NullCache
    /\ wrappedCalls = 0
    /\ lastCall = NoCall

\* No TweetList is mounted.
IdleList ==
    /\ cancel = [t \in TaskIds |-> FALSE]
    /\ created = [t \in TaskIds |-> FALSE]
    /\ cancelled = FALSE
    /\ loadingTask = [t \in TaskIds |-> "none"]
    /\ undoTask = [t \in TaskIds |-> "none"]
    /\ rendered = <<>>

\* The hook-based TweetList has rendered once; no effect has run yet.
IdleHook ==
    /\ tweetTask = [t \in TaskIds |-> "none"]
    /\ isRendered = [t \in TaskIds |-> FALSE]
    /\ renderedDue = [t \in TaskIds |-> TRUE]
    /\ tweetsRendered = {}
    /\ fullyDue = TRUE
    /\ hookReports = <<>>

\* Every userRunner returns a promise that settles later.
IdleKinds == runnerKind = [t \in TaskIds |-> "promise"]

\* What api.GetTweet has returned before it is called: nothing.
TweetNotCalled ==
    [done |-> FALSE, err |-> "none",
     tweet |-> [User |-> NoUser, ParentId |-> NoTweet, ParentUserId |-> NoUser]]

\* No request is under way.
IdleApi ==
    /\ apiReq = "none"
    /\ apiResp = [doErr |-> FALSE, status |-> 0, wellFormed |-> FALSE,
                  body |-> <<>>]
    /\ apiOut = NotCalled
    /\ apiId = NoTweet
    /\ tweetOut = TweetNotCalled

Init == InitSched /\ IdleThread /\ IdleMerge /\ IdleApi /\ IdlePage
        /\ IdleHook
        /\ IdleList
        /\ IdleKinds
        /\ IdleChanged
        /\ IdleLoad

Next ==
    \/ \E i \in Inst : Schedule(i)
    \/ \E t \in TaskIds : Settle(t)
    \/ \E t \in TaskIds : Complete(t)
    \/ \E t \in TaskIds : Deliver(t)

\* promiseChain of common.ts, two instances.
Spec == Init /\ [][Next]_vars

NextRunner ==
    \/ \E i \in Inst : Schedule(i)
    \/ \E t \in TaskIds : Settle(t)
    \/ \E t \in TaskIds : CompleteRunner(t)
    \/ \E t \in TaskIds : Deliver(t)

\* promiseRunner of promiseChain.tsx, two instances.
SpecRunner == Init /\ [][NextRunner]_vars

\* The event loop runs the reaction of every settled promise (Complete,
\* Deliver); that every started task settles is the proviso of the claims.
\* Each of these steps changes a scheduler variable, so the subscript
\* schedVars says the same as vars.
Fairness ==
    \A t \in TaskIds :
        /\ WF_schedVars(Settle(t))
        /\ WF_schedVars(Deliver(t))

FairSpec == Spec /\ Fairness /\ \A t \in TaskIds : WF_schedVars(Complete(t))

FairSpecRunner ==
    SpecRunner /\ Fairness /\ \A t \in TaskIds : WF_schedVars(CompleteRunner(t))

\* ------------------------------------------------- scheduler: claims

Range(q) == {q[k] : k \in 1..Len(q)}

\* Tasks of instance i whose userRunner was called and has not settled.
Running(i) == {t \in TaskIds : inst[t] = i /\ phase[t] = "running"}

\* Tasks of instance i that hold a slot: started, taskComplete not yet run.
InFlight(i) == {t \in TaskIds : inst[t] = i /\ phase[t] \in {"running", "settled"}}

\* Position of t in the start order of instance i (0: not started).
StartPos(i, t) ==
    IF i \in Inst /\ t \in Range(startOrder[i])
    THEN CHOOSE k \in 1..Len(startOrder[i]) : startOrder[i][k] = t
    ELSE 0

\* C1: in every reachable state, the number of user tasks of a scheduler
\* that have been started and have not yet settled is at most maxConcurrent.
C1_AtMostMaxConcurrent ==
    \A i \in Inst : Cardinality(Running(i)) <= maxConcurrent[i]

\* C1 witness: a scheduler runs exactly maxConcurrent tasks while another
\* task of it has to wait.
C1_Witness ==
    \E i \in Inst :
        /\ Cardinality(Running(i)) = maxConcurrent[i]
        /\ queue[i] # <<>>

\* C2: every task passed to promiseChain is eventually started, provided
\* every started task eventually settles.
C2_EventuallyStarted ==
    \A t \in TaskIds :
        (phase[t] # "new") ~> (phase[t] \in {"running", "settled", "completed"})

\* C2 witness: a task that had to wait in the queue has been started.
C2_Witness ==
    \E t \in TaskIds :
        /\ inst[t] # 0
        /\ StartPos(inst[t], t) > maxConcurrent[inst[t]]

\* C3: every callable passed to promiseRunner (promiseChain.tsx) is
\* eventually called, provided every called callable settles; also one
\* passed in after all earlier callables have settled.
C3_RunnerEventuallyCalled ==
    \A t \in TaskIds :
        (phase[t] = "waiting") ~> (StartPos(inst[t], t) > 0)

\* C4: tasks start in the order they were scheduled: the start order of a
\* scheduler follows the order of the schedule calls, and no started task
\* was scheduled after a task that is still waiting.
C4_StartInScheduleOrder ==
    \A i \in Inst :
        /\ \A k \in 1..Len(startOrder[i]) : \A l \in 1..Len(startOrder[i]) :
              k < l => startOrder[i][k] < startOrder[i][l]
        /\ \A w \in Range(queue[i]) : \A s \in Range(startOrder[i]) : s < w

\* C4 witness: two tasks waited together and the older one has been started
\* while the newer one still waits.
C4_Witness ==
    \E i \in Inst : \E t \in TaskIds :
        /\ StartPos(i, t) > maxConcurrent[i]
        /\ queue[i] # <<>>
        /\ Head(queue[i]) > t

\* C5: the promise returned for a task settles with that task's own outcome
\* (same kind, same value or reason) and never before the task was started.
C5_ReturnsOwnOutcome ==
    \A t \in TaskIds :
        returned[t] # Pending =>
            /\ returned[t] = outcome[t]
            /\ outcome[t] \in Outcomes(t)
            /\ StartPos(inst[t], t) > 0

\* C5 witness: one returned promise has fulfilled and another has rejected.
C5_Witness ==
    \E t \in TaskIds : \E u \in TaskIds :
        /\ returned[t].kind = "fulfilled"
        /\ returned[u].kind = "rejected"

\* C6: a task that rejects releases its slot as a fulfilled one does: when
\* its completion runs, the oldest waiting task (if any) is started and the
\* running count stays, otherwise the running count drops by one.
C6_FailureReleasesSlot ==
    [][\A t \in TaskIds :
         (phase[t] = "settled" /\ phase'[t] = "completed"
            /\ outcome[t].kind = "rejected") =>
           LET i == inst[t] IN
           IF queue[i] # <<>>
           THEN /\ phase'[Head(queue[i])] = "running"
                /\ queue'[i] = Tail(queue[i])
                /\ runningTasks'[i] = runningTasks[i]
           ELSE runningTasks'[i] = runningTasks[i] - 1]_vars

\* C6 witness: on a scheduler with one slot, the first task rejected and the
\* task that waited behind it has been started.
C6_Witness ==
    \E i \in Inst : \E t \in TaskIds : \E u \in TaskIds :
        /\ maxConcurrent[i] = 1
        /\ startOrder[i] = <<t, u>>
        /\ outcome[t].kind = "rejected"

\* C7: each scheduler instance has its own running count and queue: a step
\* of a task of one instance leaves the running count and the queue of every
\* other instance unchanged, and a new task is admitted at once exactly when
\* fewer than maxConcurrent tasks of its own instance hold a slot.
C7_InstancesIndependent ==
    [][\A t \in TaskIds :
         phase'[t] # phase[t] =>
           /\ \A j \in Inst \ {inst'[t]} :
                 /\ runningTasks'[j] = runningTasks[j]
                 /\ queue'[j] = queue[j]
           /\ phase[t] = "new" =>
                 (phase'[t] = "running" <=>
                    Cardinality(InFlight(inst'[t])) < maxConcurrent[inst'[t]])]_vars

\* C7 witness: one instance is full with a task waiting while the other
\* instance runs a task with a slot to spare.
C7_Witness ==
    \E i \in Inst : \E j \in Inst :
        /\ i # j
        /\ runningTasks[i] = maxConcurrent[i]
        /\ queue[i] # <<>>
        /\ runningTasks[j] = 1
        /\ runningTasks[j] < maxConcurrent[j]

\* ------------------------------------------------- GenerateThread: helpers

\* The api.Tweet that GetTweets / GetUserTweets decode for tweet id from the
\* remote service's answer.
Remote(id) ==
    [User |-> author[id],
     ParentId |-> parent[id],
     ParentUserId |-> IF parent[id] = NoTweet THEN NoUser ELSE author[parent[id]]]

\* `Tweet{}`: the zero value handed back beside an error.
ZeroTweet == [User |-> NoUser, ParentId |-> NoTweet, ParentUserId |-> NoUser]

\* A Merge that assigns the incoming map to the receiver.
MergeReplace(t, incoming) == incoming

\* Tweets.Merge: every incoming entry is stored under its id.
Merge(t, incoming) ==
    [id \in DOMAIN t \cup DOMAIN incoming |->
        IF id \in DOMAIN incoming THEN incoming[id] ELSE t[id]]

\* `m[id] = tweet` on a map.
Put(m, id, tweet) ==
    [k \in DOMAIN m \cup {id} |-> IF k = id THEN tweet ELSE m[k]]

\* api.GetTweet(id): an error (transport, status, decoding, tweet not in the
\* answer) or the tweet.
GetTweet(id) ==
    {[error |-> TRUE, tweet |-> ZeroTweet], [error |-> FALSE, tweet |-> Remote(id)]}

\* api.GetUserTweets(userId, maxTweet): an error, or one page of the user's
\* timeline: tweets of that user with id <= max_id, as many as the service
\* chooses to send (count=200 caps it).
GetUserTweets(userId, maxTweet) ==
    {[error |-> TRUE, tweets |-> EmptyTweets]} \cup
    {[error |-> FALSE, tweets |-> [id \in page |-> Remote(id)]] :
        page \in SUBSET {id \in Tweets : author[id] = userId /\ id <= maxTweet}}

\* A test that sends every fetched tweet to the lookahead.
HasParentAlways(tweet) == TRUE

\* `tweet.ParentId != nil`.
HasParent(tweet) == tweet.ParentId # NoTweet

\* A hit that hands back the zero value instead of the stored tweet.
cachedTweetZero(store, id) == ZeroTweet

\* `tweet, ok := localStore[id]`: the tweet a hit hands back.
cachedTweet(store, id) == store[id]

\* The else branch of getTweet (a miss): every way it can end, as (error
\* returned, tweet returned, store afterwards, API calls made).
fetchTweet(store, id) ==
    UNION {
      IF r.error
      THEN {[err |-> "direct", tweet |-> ZeroTweet, store |-> store,
             calls |-> [lookup |-> {id}, timeline |-> {}]]}
      ELSE IF HasParent(r.tweet)
           THEN {IF u.error
                 THEN [err |-> "lookahead", tweet |-> ZeroTweet, store |-> store,
                       calls |-> [lookup |-> {id},
                                  timeline |-> {<<r.tweet.ParentUserId, id>>}]]
                 ELSE [err |-> "none", tweet |-> r.tweet,
                       store |-> Merge(store, u.tweets),
                       calls |-> [lookup |-> {id},
                                  timeline |-> {<<r.tweet.ParentUserId, id>>}]] :
                   u \in GetUserTweets(r.tweet.ParentUserId, id)}
           ELSE {[err |-> "none", tweet |-> r.tweet, store |-> store,
                  calls |-> [lookup |-> {id}, timeline |-> {}]]} :
      r \in GetTweet(id)}

\* getTweet that never looks into the store.
getTweetAlwaysFetch(store, id) == fetchTweet(store, id)

\* The closure getTweet of GenerateThread, on the local store `store`.
getTweet(store, id) ==
    IF id \in DOMAIN store
    THEN {[err |-> "none", tweet |-> cachedTweet(store, id), store |-> store,
           calls |-> NoCalls]}
    ELSE fetchTweet(store, id)

\* The orders in which a `range` over map m can visit its keys (Go leaves
\* the iteration order of a map unspecified).
RangeOrders(m) ==
    {q \in [1..Cardinality(DOMAIN m) -> DOMAIN m] :
        \A k \in DOMAIN q : \A l \in DOMAIN q : k # l => q[k] # q[l]}

\* ------------------------------------------------- GenerateThread: actions

\* No scheduler is in use while the resolver is examined.
IdleSched ==
    /\ maxConcurrent = [i \in Inst |-> 1]
    /\ runningTasks = [i \in Inst |-> 0]
    /\ queue = [i \in Inst |-> <<>>]
    /\ nextTask = 1
    /\ inst = [t \in TaskIds |-> 0]
    /\ phase = [t \in TaskIds |-> "new"]
    /\ outcome = [t \in TaskIds |-> Pending]
    /\ returned = [t \in TaskIds |-> Pending]
    /\ startOrder = [i \in Inst |-> <<>>]

\* GenerateThread(tail) is entered: any remote data (cyclic parent pointers
\* included), any tail.
InitThread ==
    /\ IdleSched
    /\ IdleMerge
    /\ IdleApi
    /\ IdlePage
    /\ IdleLoad
    /\ IdleChanged
    /\ IdleKinds
    /\ IdleList
    /\ IdleHook
    /\ parent \in [Tweets -> Tweets \cup {NoTweet}]
    /\ author \in [Tweets -> Users]
    /\ tail \in Tweets
    /\ localStore = EmptyTweets
    /\ result = EmptyTweets
    /\ currentTweetId = tail
    /\ status = "walking"
    /\ err = "none"
    /\ thread = <<>>
    /\ hops = 0
    /\ calls = NoCalls
    /\ run = 1
    /\ warm = {}
    /\ lookups = 0
    /\ lookaheads = 0

\* The spec's configured maximum chain length; no acyclic chain of the
\* remote data is longer.
MaxChainLength == MaxTweets

\* One more loop iteration is counted.
CountHop == hops' = IF hops <= MaxChainLength THEN hops + 1 ELSE hops

\* The calls of one getTweet are added to the counts of the resolution.
CountCalls(c) ==
    /\ lookups' = IF hops <= MaxChainLength
                  THEN lookups + Cardinality(c.lookup) ELSE lookups
    /\ lookaheads' = IF hops <= MaxChainLength
                     THEN lookaheads + Cardinality(c.timeline) ELSE lookaheads

\* `return result, err`: the walked part is handed back beside the error.
ErrorReturnPartial(res) == res

\* `return nil, err`: the map handed back beside an error.
ErrorReturn(res) == EmptyTweets

\* A loop iteration in which getTweet returns an error: `return nil, err`.
IterateError ==
    /\ status = "walking"
    /\ \E o \in getTweet(localStore, currentTweetId) :
         /\ o.err # "none"
         /\ localStore' = o.store
         /\ calls' = o.calls
         /\ CountCalls(o.calls)
         /\ status' = "error"
         /\ err' = o.err
    /\ thread' \in RangeOrders(ErrorReturn(result))
    /\ CountHop
    /\ UNCHANGED <<parent, author, tail, result, currentTweetId, run, warm>>
    /\ UNCHANGED <<schedVars, mergeVars, apiVars, pageVars,
                   loadVars, changedVars, kindVars, listVars, hookVars>>

\* A loop iteration that reaches a tweet without parent: `return result, nil`.
IterateRoot ==
    /\ status = "walking"
    /\ \E o \in getTweet(localStore, currentTweetId) :
         /\ o.err = "none"
         /\ o.tweet.ParentId = NoTweet
         /\ localStore' = o.store
         /\ calls' = o.calls
         /\ CountCalls(o.calls)
         /\ result' = Put(result, currentTweetId, o.tweet)
    /\ status' = "ok"
    /\ thread' \in RangeOrders(result')
    /\ CountHop
    /\ UNCHANGED <<parent, author, tail, currentTweetId, err, run, warm>>
    /\ UNCHANGED <<schedVars, mergeVars, apiVars, pageVars,
                   loadVars, changedVars, kindVars, listVars, hookVars>>

\* A loop iteration that moves on to the parent.
IterateParent ==
    /\ status = "walking"
    /\ \E o \in getTweet(localStore, currentTweetId) :
         /\ o.err = "none"
         /\ o.tweet.ParentId # NoTweet
         /\ localStore' = o.store
         /\ calls' = o.calls
         /\ CountCalls(o.calls)
         /\ result' = Put(result, currentTweetId, o.tweet)
         /\ currentTweetId' = o.tweet.ParentId
    /\ CountHop
    /\ UNCHANGED <<parent, author, tail, status, err, thread, run, warm>>
    /\ UNCHANGED <<schedVars, mergeVars, apiVars, pageVars,
                   loadVars, changedVars, kindVars, listVars, hookVars>>

\* The caller resolves the same tail again after a success: GenerateThread
\* is entered anew, with `localStore := api.Tweets{}` and `result :=
\* api.Tweets{}` of its own.
ResolveAgain ==
    /\ status = "ok"
    /\ run = 1
    /\ run' = 2
    /\ warm' = DOMAIN localStore \cup DOMAIN result
    /\ localStore' = EmptyTweets
    /\ result' = EmptyTweets
    /\ currentTweetId' = tail
    /\ status' = "walking"
    /\ thread' = <<>>
    /\ hops' = 0
    /\ calls' = NoCalls
    /\ lookups' = 0
    /\ lookaheads' = 0
    /\ UNCHANGED <<parent, author, tail, err>>
    /\ UNCHANGED <<schedVars, mergeVars, apiVars, pageVars,
                   loadVars, changedVars, kindVars, listVars, hookVars>>

NextThread ==
    \/ IterateError
    \/ IterateRoot
    \/ IterateParent
    \/ ResolveAgain

\* GenerateThread(tail), called once or twice for the same tail.
SpecThread == InitThread /\ [][NextThread]_vars

\* ------------------------------------------------- GenerateThread: claims

\* The reply chain that ends at tweet t, root first, following at most
\* `fuel` parent pointers.
RECURSIVE ChainTo(_, _)
ChainTo(t, fuel) ==
    IF parent[t] = NoTweet \/ fuel = 0
    THEN <<t>>
    ELSE Append(ChainTo(parent[t], fuel - 1), t)

\* The parent pointers from t reach a root without visiting a tweet twice.
RECURSIVE ReachesRoot(_, _)
ReachesRoot(t, fuel) ==
    IF parent[t] = NoTweet THEN TRUE
    ELSE IF fuel = 0 THEN FALSE
    ELSE ReachesRoot(parent[t], fuel - 1)

AcyclicChain == ReachesRoot(tail, MaxTweets - 1)

\* C8: for an acyclic reply chain ending at the tail, a successful
\* GenerateThread(tail) returns exactly the tweets of the chain in
\* root-to-tail order, each one the parent of the next, and nothing else.
C8_ThreadInRootToTailOrder ==
    (status = "ok" /\ AcyclicChain) =>
        /\ thread = ChainTo(tail, MaxTweets)
        /\ \A k \in 1..Len(thread) : result[thread[k]] = Remote(thread[k])
        /\ \A k \in 2..Len(thread) : result[thread[k]].ParentId = thread[k - 1]

\* C9: a failing lookahead (timeline page) fetch after a successful direct
\* lookup does not fail the hop; only a failing direct lookup makes
\* GenerateThread return an error.
C9_LookaheadFailureNotFatal ==
    status = "error" => err = "direct"

\* C10: GenerateThread terminates on every input: after the configured
\* maximum number of hops the walk is over (with a thread, an error or
\* ThreadTooLong) and no further hop is made.
C10_StopsAtMaxChainLength ==
    hops >= MaxChainLength => status \in {"ok", "error", "ThreadTooLong"}

\* The map that holds exactly the reply chain ending at the tail, each
\* tweet as the remote service has it.
ChainMap == [id \in Range(ChainTo(tail, MaxTweets)) |-> Remote(id)]

\* C11: when the requested id is already in the store, getTweet sends no
\* request (no single-tweet lookup, no timeline fetch), leaves the store as
\* it is and hands back the stored tweet unchanged.
C11_CacheHitNoApiCall ==
    [][(status = "walking" /\ currentTweetId \in DOMAIN localStore) =>
          /\ calls' = NoCalls
          /\ localStore' = localStore
          /\ status' # "error"
          /\ result'[currentTweetId] = localStore[currentTweetId]]_vars

\* C11 witness: a resolution of two hops or more has succeeded and its last
\* hop was answered from the store, without any request.
C11_Witness ==
    /\ status = "ok"
    /\ hops >= 2
    /\ calls = NoCalls
    /\ currentTweetId \in DOMAIN localStore

\* C12: the map a successful resolution returns is determined by the remote
\* tweet data alone: whatever the lookahead pages held (nothing, a part, all
\* of the timeline) and whichever hops were answered from the store, it is
\* the reply chain of the tail with the remote records.
C12_ThreadIndependentOfCache ==
    status = "ok" => result = ChainMap

\* C12 witness: a resolution succeeded in which one hop was fetched and a
\* later hop was answered from the store.
C12_Witness ==
    /\ status = "ok"
    /\ Cardinality(DOMAIN result) >= 2
    /\ calls = NoCalls
    /\ DOMAIN localStore # {}

\* C15: after a miss whose direct lookup succeeded, the requested tweet is in
\* the store, whether the lookahead succeeded, failed or was not needed.
C15_FetchedTweetIsCached ==
    [][(/\ status = "walking"
        /\ currentTweetId \notin DOMAIN localStore
        /\ calls'.lookup = {currentTweetId}
        /\ err' # "direct")
          => currentTweetId \in DOMAIN localStore']_vars

\* C16: a second resolution of the same tail, after a first successful one,
\* sends no single-tweet lookup for a tweet that the first resolution
\* fetched or stored.
C16_SecondResolutionNoCalls ==
    run = 2 => calls.lookup \cap warm = {}

\* The returned map holds the tail and, with every tweet that has a parent,
\* that parent: the chain is whole, up to a root.
WholeChain ==
    /\ tail \in DOMAIN result
    /\ \A id \in DOMAIN result :
          result[id].ParentId # NoTweet => result[id].ParentId \in DOMAIN result

\* C17: a failing hop makes GenerateThread return an error and no thread;
\* what is returned as a success is never a partial chain.
C17_FailedHopNoThread ==
    /\ status = "error" => (err # "none" /\ thread = <<>>)
    /\ status = "ok" => (err = "none" /\ WholeChain /\ Len(thread) = Cardinality(DOMAIN result))

\* C17 witness: a hop failed after earlier hops had been resolved, and
\* nothing of them is returned.
C17_Witness ==
    /\ status = "error"
    /\ err = "direct"
    /\ DOMAIN result # {}
    /\ thread = <<>>

\* C18: when the direct lookup of the parent at hop k fails, the k tweets
\* resolved before the failure are handed back as the recoverable prefix.
C18_BrokenChainKeepsPrefix ==
    (status = "error" /\ err = "direct") =>
        /\ Len(thread) = Cardinality(DOMAIN result)
        /\ Range(thread) = DOMAIN result

\* C21: within one resolution a miss sends exactly one single-tweet lookup
\* and, only when the fetched tweet has a parent, exactly one timeline fetch
\* for the parent's author up to the fetched id; a hit or a root sends no
\* timeline fetch.  So a resolved chain of N hops has cost at most N lookups
\* and N - 1 timeline fetches.
C21_CallsPerHop ==
    [][status = "walking" =>
        LET id == currentTweetId
            hit == id \in DOMAIN localStore
            fetched == ~hit /\ err' # "direct"
        IN  /\ calls'.lookup = IF hit THEN {} ELSE {id}
            /\ calls'.timeline =
                  IF fetched /\ parent[id] # NoTweet
                  THEN {<<author[parent[id]], id>>} ELSE {}
            /\ status' = "ok" =>
                  /\ lookups' <= hops'
                  /\ lookaheads' <= hops' - 1]_vars

\* C21 witness: a chain of two hops is resolved with two lookups and one
\* timeline fetch (the page did not hold the parent).
C21_Witness ==
    /\ status = "ok"
    /\ hops = 2
    /\ lookups = 2
    /\ lookaheads = 1
    /\ calls = [lookup |-> {currentTweetId}, timeline |-> {}]

\* ------------------------------------------------- Tweets.Merge on its own

\* Tweet values that differ (the author snapshot of a tweet can differ
\* between two answers of the service).
TweetRecs ==
    {[User |-> u, ParentId |-> NoTweet, ParentUserId |-> NoUser] : u \in Users}

\* Every api.Tweets map over the ids MergeIds.
SmallMaps == UNION {[S -> TweetRecs] : S \in SUBSET MergeIds}

\* Any cache, any two pages.
InitMerge ==
    /\ IdleSched
    /\ IdleThread
    /\ IdleApi
    /\ IdlePage
    /\ IdleLoad
    /\ IdleChanged
    /\ IdleKinds
    /\ IdleList
    /\ IdleHook
    /\ mA \in SmallMaps
    /\ mB = mA
    /\ mP \in SmallMaps
    /\ mQ \in SmallMaps
    /\ mStep = 0

\* cache.Merge(first page): P into the one cache, Q into the other.
MergeFirst ==
    /\ mStep = 0
    /\ mA' = Merge(mA, mP)
    /\ mB' = Merge(mB, mQ)
    /\ mStep' = 1
    /\ UNCHANGED <<mP, mQ>>
    /\ UNCHANGED <<schedVars, threadVars, apiVars, pageVars,
                   loadVars, changedVars, kindVars, listVars, hookVars>>

\* cache.Merge(second page): Q into the one cache, P into the other.
MergeSecond ==
    /\ mStep = 1
    /\ mA' = Merge(mA, mQ)
    /\ mB' = Merge(mB, mP)
    /\ mStep' = 2
    /\ UNCHANGED <<mP, mQ>>
    /\ UNCHANGED <<schedVars, threadVars, apiVars, pageVars,
                   loadVars, changedVars, kindVars, listVars, hookVars>>

NextMerge ==
    \/ MergeFirst
    \/ MergeSecond

\* Two pages merged into a cache, in both orders.
SpecMerge == InitMerge /\ [][NextMerge]_vars

\* ------------------------------------------------- Tweets.Merge: claims

\* C13: Merge never overwrites: every id that is in the cache before a
\* Merge keeps the very same record after it; only absent ids are added.
C13_MergeNeverOverwrites ==
    [][\A id \in DOMAIN mA :
          /\ id \in DOMAIN mA'
          /\ mA'[id] = mA[id]]_vars

\* Pages P and Q carry identical records for the ids they share.
PagesAgree == \A id \in DOMAIN mP \cap DOMAIN mQ : mP[id] = mQ[id]

\* C14: merging is order-independent: for any cache and any two pages that
\* agree on their shared ids, P then Q leaves the same cache as Q then P.
C14_MergeOrderIndependent ==
    (mStep = 2 /\ PagesAgree) => mA = mB

\* C14 witness: both orders are done for two different pages that share an
\* id, one of which brings an id that was already cached.
C14_Witness ==
    /\ mStep = 2
    /\ PagesAgree
    /\ mP # mQ
    /\ DOMAIN mP \cap DOMAIN mQ # {}
    /\ DOMAIN mP # DOMAIN mQ
    /\ mA = mB
    /\ Cardinality(DOMAIN mA) = MaxMergeIds

\* ------------------------------------------------- api: the HTTP exchange

\* Status codes that client.Do can hand to its caller: 101 (Switching
\* Protocols is returned, other 1xx answers are consumed by the transport),
\* success codes, a redirect that is not followed, and failures.
HttpStatuses == {101, 200, 201, 204, 304, 401, 403, 404, 500}

\* One element of the JSON array of an answer.
ResponseEntries ==
    {[id |-> i, in_reply_to_status_id |-> NoTweet,
      in_reply_to_user_id |-> NoUser, user |-> u] : i \in MergeIds, u \in Users}

\* The JSON arrays of at most MaxMergeIds elements.
ResponseBodies == UNION {[1..n -> ResponseEntries] : n \in 0..MaxMergeIds}

\* What the service can answer to one request: client.Do fails (doErr), or
\* a response with a status and a body that is a JSON array or is not.
Responses ==
    [doErr : BOOLEAN, status : HttpStatuses, wellFormed : BOOLEAN,
     body : ResponseBodies]

\* `response.StatusCode > 200`.
StatusIsError(code) == code > 200

\* fmt.Errorf("Twitter API returned an error").
StatusError(code) == "Twitter API returned an error"

\* `for _, tweet := range responseData { result[tweet.id] = Tweet{...} }`:
\* the last element with an id is the one the map keeps.
DecodeTweets(body) ==
    [i \in {body[k].id : k \in DOMAIN body} |->
        LET last == CHOOSE k \in DOMAIN body :
                        /\ body[k].id = i
                        /\ \A l \in DOMAIN body : body[l].id = i => l <= k
        IN  [User |-> body[last].user,
             ParentId |-> body[last].in_reply_to_status_id,
             ParentUserId |-> body[last].in_reply_to_user_id]]

\* api.GetTweets from client.Do on: what it returns for the answer resp.
GetTweetsResponse(resp) ==
    IF resp.doErr
    THEN [done |-> TRUE, err |-> "client.Do", tweets |-> EmptyTweets]
    ELSE IF StatusIsError(resp.status)
    THEN [done |-> TRUE, err |-> StatusError(resp.status), tweets |-> EmptyTweets]
    ELSE IF ~resp.wellFormed
    THEN [done |-> TRUE, err |-> "json.Decode", tweets |-> EmptyTweets]
    ELSE [done |-> TRUE, err |-> "none", tweets |-> DecodeTweets(resp.body)]

\* api.GetUserTweets from client.Do on: what it returns for the answer resp.
GetUserTweetsResponse(resp) ==
    IF resp.doErr
    THEN [done |-> TRUE, err |-> "client.Do", tweets |-> EmptyTweets]
    ELSE IF StatusIsError(resp.status)
    THEN [done |-> TRUE, err |-> StatusError(resp.status), tweets |-> EmptyTweets]
    ELSE IF ~resp.wellFormed
    THEN [done |-> TRUE, err |-> "json.Decode", tweets |-> EmptyTweets]
    ELSE [done |-> TRUE, err |-> "none", tweets |-> DecodeTweets(resp.body)]

\* A lookup that hands back any tweet of the map.
mapIndexAny(tweets, id) ==
    IF DOMAIN tweets # {}
    THEN [ok |-> TRUE, tweet |-> tweets[CHOOSE k \in DOMAIN tweets : k # id \/ DOMAIN tweets = {id}]]
    ELSE [ok |-> FALSE, tweet |-> ZeroTweet]

\* `tweet, ok := tweets[id]`.
mapIndex(tweets, id) ==
    IF id \in DOMAIN tweets
    THEN [ok |-> TRUE, tweet |-> tweets[id]]
    ELSE [ok |-> FALSE, tweet |-> ZeroTweet]

\* api.GetTweet(id) when the service's answer is resp: GetTweets for the one
\* id, then the lookup of id in what it returned.
GetTweetResponse(id, resp) ==
    LET r == GetTweetsResponse(resp)
        found == mapIndex(r.tweets, id)
    IN  IF r.err # "none"
        THEN [done |-> TRUE, err |-> r.err, tweet |-> ZeroTweet]
        ELSE IF ~found.ok
        THEN [done |-> TRUE, err |-> "Couldn't find tweet with id", tweet |-> ZeroTweet]
        ELSE [done |-> TRUE, err |-> "none", tweet |-> found.tweet]

\* One of the three functions is about to be called; the service will give
\* any answer.
InitApi ==
    /\ IdleSched
    /\ IdleThread
    /\ IdleMerge
    /\ IdlePage
    /\ IdleLoad
    /\ IdleChanged
    /\ IdleKinds
    /\ IdleList
    /\ IdleHook
    /\ apiReq \in {"GetTweets", "GetUserTweets", "GetTweet"}
    /\ apiResp \in Responses
    /\ apiOut = NotCalled
    /\ apiId \in IF apiReq = "GetTweet" THEN MergeIds ELSE {NoTweet}
    /\ tweetOut = TweetNotCalled

\* api.GetTweets runs and returns.
CallGetTweets ==
    /\ apiReq = "GetTweets"
    /\ ~apiOut.done
    /\ apiOut' = GetTweetsResponse(apiResp)
    /\ UNCHANGED <<apiReq, apiResp, apiId, tweetOut>>
    /\ UNCHANGED <<schedVars, threadVars, mergeVars, pageVars,
                   loadVars, changedVars, kindVars, listVars, hookVars>>

\* api.GetUserTweets runs and returns.
CallGetUserTweets ==
    /\ apiReq = "GetUserTweets"
    /\ ~apiOut.done
    /\ apiOut' = GetUserTweetsResponse(apiResp)
    /\ UNCHANGED <<apiReq, apiResp, apiId, tweetOut>>
    /\ UNCHANGED <<schedVars, threadVars, mergeVars, pageVars,
                   loadVars, changedVars, kindVars, listVars, hookVars>>

\* api.GetTweet runs and returns.
CallGetTweet ==
    /\ apiReq = "GetTweet"
    /\ ~tweetOut.done
    /\ tweetOut' = GetTweetResponse(apiId, apiResp)
    /\ UNCHANGED <<apiReq, apiResp, apiId, apiOut>>
    /\ UNCHANGED <<schedVars, threadVars, mergeVars, pageVars,
                   loadVars, changedVars, kindVars, listVars, hookVars>>

NextApi ==
    \/ CallGetTweets
    \/ CallGetUserTweets
    \/ CallGetTweet

\* One call of api.GetTweets, api.GetUserTweets or api.GetTweet.
SpecApi == InitApi /\ [][NextApi]_vars

\* ------------------------------------------------- api: claims

\* The function named by apiReq, applied to an answer.
Called(resp) ==
    IF apiReq = "GetTweets" THEN GetTweetsResponse(resp)
    ELSE GetUserTweetsResponse(resp)

\* C19: for every response whose status is outside 200..299 both functions
\* return an error, and no such response is decoded and returned as tweets.
C19_Non2xxIsError ==
    (apiOut.done /\ ~apiResp.doErr /\ apiResp.status \notin 200..299) =>
        apiOut.err # "none"

\* C20: the error returned for a 401 or 403 response differs from the error
\* returned for every other failing status, so the caller can tell an
\* expired authorization from the other failures.
C20_AuthExpiredDistinct ==
    (apiOut.done /\ ~apiResp.doErr /\ apiResp.status \in {401, 403}) =>
        \A c \in HttpStatuses \ {401, 403} :
            Called([apiResp EXCEPT !.status = c]).err # apiOut.err

\* The elements of the answered JSON array that carry the requested id.
EntriesOfId == {k \in DOMAIN apiResp.body : apiResp.body[k].id = apiId}

\* C22: when the answer holds no tweet with the requested id, GetTweet
\* returns an error; a tweet it returns is one the answer holds under the
\* requested id, never one stored under another id.
C22_GetTweetOnlyRequestedId ==
    tweetOut.done =>
        /\ EntriesOfId = {} => (tweetOut.err # "none" /\ tweetOut.tweet = ZeroTweet)
        /\ tweetOut.err = "none" =>
              \E k \in EntriesOfId : tweetOut.tweet.User = apiResp.body[k].user

\* C22 witness: the lookup succeeded at HTTP level, the answer holds tweets
\* but none with the requested id, and GetTweet returned the error.
C22_Witness ==
    /\ tweetOut.done
    /\ ~apiResp.doErr
    /\ apiResp.status = 200
    /\ apiResp.wellFormed
    /\ apiResp.body # <<>>
    /\ EntriesOfId = {}
    /\ tweetOut.err = "Couldn't find tweet with id"

\* ------------------------------------------------- ThreadPage

\* The props a ThreadPage can be rendered with: head is optional (0: none).
PageProps == {[head |-> h, tail |-> t] : h \in {0, 1}, t \in {1, 2}}

\* The JSON the server answers to /api/thread?head=..&tail=..: the thread
\* and the author that belong to that query.
Content(query) == [thread |-> query, author |-> query]

\* An abort that stops nothing.
abortNothing(ph) == ph

\* controller.abort(): a pending fetch rejects, a body that is still being
\* read fails response.json(); a chain that has run to its end is left.
abort(ph) == IF ph \in {"fetching", "reading"} THEN "aborted" ELSE ph

\* The cleanup of the effect, as far as the fetches go: the controller of
\* the latest effect is aborted.
cleanup(fs) == [fs EXCEPT ![Len(fs)].phase = abort(@)]

\* The component is mounted: first render and first run of the effect.
InitPage ==
    /\ IdleSched
    /\ IdleThread
    /\ IdleMerge
    /\ IdleApi
    /\ IdleLoad
    /\ IdleChanged
    /\ IdleKinds
    /\ IdleList
    /\ IdleHook
    /\ props \in PageProps
    /\ mounted = TRUE
    /\ threadTweetIds = NullState
    /\ authorState = NullState
    /\ fetches = <<[query |-> props, phase |-> "fetching"]>>

\* head or tail changes: React runs the cleanup of the previous effect and
\* then the effect again, in one flush.
ChangeProps(p) ==
    /\ mounted
    /\ p # props
    /\ Len(fetches) < MaxFetches
    /\ props' = p
    /\ threadTweetIds' = NullState
    /\ authorState' = NullState
    /\ fetches' = Append(cleanup(fetches), [query |-> p, phase |-> "fetching"])
    /\ UNCHANGED mounted
    /\ UNCHANGED <<schedVars, threadVars, mergeVars, apiVars,
                   loadVars, changedVars, kindVars, listVars, hookVars>>

\* The component unmounts: the cleanup runs.
Unmount ==
    /\ mounted
    /\ mounted' = FALSE
    /\ threadTweetIds' = NullState
    /\ authorState' = NullState
    /\ fetches' = cleanup(fetches)
    /\ UNCHANGED props
    /\ UNCHANGED <<schedVars, threadVars, mergeVars, apiVars,
                   loadVars, changedVars, kindVars, listVars, hookVars>>

\* fetch() resolves with the response; `response.json()` starts to read.
FetchResponds(f) ==
    /\ fetches[f].phase = "fetching"
    /\ fetches' = [fetches EXCEPT ![f].phase = "reading"]
    /\ UNCHANGED <<props, mounted, threadTweetIds, authorState>>
    /\ UNCHANGED <<schedVars, threadVars, mergeVars, apiVars,
                   loadVars, changedVars, kindVars, listVars, hookVars>>

\* The request or the parsing fails; nothing handles the rejection.
FetchFails(f) ==
    /\ fetches[f].phase \in {"fetching", "reading"}
    /\ fetches' = [fetches EXCEPT ![f].phase = "failed"]
    /\ UNCHANGED <<props, mounted, threadTweetIds, authorState>>
    /\ UNCHANGED <<schedVars, threadVars, mergeVars, apiVars,
                   loadVars, changedVars, kindVars, listVars, hookVars>>

\* `.then(content => { setThreadTweetIds(content.thread);
\* setAuthor(content.author) })` (a state setter of an unmounted component
\* does nothing).
ApplyContent(f) ==
    /\ fetches[f].phase = "reading"
    /\ fetches' = [fetches EXCEPT ![f].phase = "applied"]
    /\ threadTweetIds' = IF mounted THEN Content(fetches[f].query).thread
                         ELSE threadTweetIds
    /\ authorState' = IF mounted THEN Content(fetches[f].query).author
                      ELSE authorState
    /\ UNCHANGED <<props, mounted>>
    /\ UNCHANGED <<schedVars, threadVars, mergeVars, apiVars,
                   loadVars, changedVars, kindVars, listVars, hookVars>>

NextPage ==
    \/ \E p \in PageProps : ChangeProps(p)
    \/ Unmount
    \/ \E f \in DOMAIN fetches : FetchResponds(f)
    \/ \E f \in DOMAIN fetches : FetchFails(f)
    \/ \E f \in DOMAIN fetches : ApplyContent(f)

\* One ThreadPage from mount to unmount.
SpecPage == InitPage /\ [][NextPage]_vars

\* ------------------------------------------------- ThreadPage: claims

\* The fetch of the effect that is in force.
CurrentFetch == fetches[Len(fetches)]

\* C23: when head/tail change or the component unmounts, the fetch in
\* flight is aborted and its response is never applied: every earlier
\* fetch is out of flight, and threadTweetIds and author are null unless
\* the fetch issued for the current head/tail has delivered its content.
C23_StaleFetchNeverApplied ==
    /\ \A f \in 1..(Len(fetches) - 1) : fetches[f].phase \notin {"fetching", "reading"}
    /\ ~mounted => CurrentFetch.phase \notin {"fetching", "reading"}
    /\ \A st \in {threadTweetIds, authorState} :
          st # NullState =>
             /\ mounted
             /\ CurrentFetch.query = props
             /\ CurrentFetch.phase = "applied"
             /\ st = props

\* C23 witness: the props changed while the first fetch was in flight; that
\* fetch is aborted, and the state holds the content of the second one.
C23_Witness ==
    /\ Len(fetches) >= 2
    /\ fetches[1].phase = "aborted"
    /\ fetches[1].query # props
    /\ CurrentFetch.phase = "applied"
    /\ threadTweetIds = Content(props).thread
    /\ authorState = Content(props).author

\* ------------------------------------------------- thread.ts: thread page

\* The scheduler `scheduleTweetLoad` of the page.
PageScheduler == 1

\* A chain whose steps wait for no load.
awaitsNothing(k) == TRUE

\* `chain.then(() => loadTask)`: the step of container k goes on once the
\* promise the scheduler returned for its load has fulfilled.
awaitsLoadTask(k) == returned[k].kind = "fulfilled"

\* A threadTask that is done with its first step.
threadTaskFirstStep(order) == Len(order) >= 1

\* threadTask, the end of the reduce chain, has fulfilled: the step of the
\* last container has run.
threadTaskDone(order) == Len(order) = MaxTasks

\* What twttr.widgets.createTweet can give: a promise fulfilled with the
\* widget element, fulfilled with no element, or rejected.
WidgetOutcomes == {"element", "null", "rejected"}

\* A wrapper that passes on whatever createTweet fulfilled with.
createThreadItemNoCheck(w) == IF w = "rejected" THEN "failed" ELSE "ok"

\* createThreadItem: `if (e == null) throw new Error("Failed to load
\* tweet")`; a rejection of createTweet goes through.
createThreadItem(w) == IF w = "element" THEN "ok" ELSE "failed"

\* A chain without the catch: the promise settles as createThreadItem did.
catchRethrows(r) == IF r = "failed" THEN "rejected" ELSE "fulfilled"

\* `.finally(...).catch((e) => {...})`: the handler returns undefined, so the
\* promise the userRunner returns fulfils after a failure too.
catchResult(r) == "fulfilled"

\* The page is ready: the containers and the end element are found, nothing
\* is scheduled yet.  The page has one scheduler; the other instance stays
\* unused.
InitLoad ==
    /\ InitSched
    /\ \A i \in Inst \ {PageScheduler} : maxConcurrent[i] = 1
    /\ IdleThread
    /\ IdleMerge
    /\ IdleApi
    /\ IdlePage
    /\ IdleLoad
    /\ IdleChanged
    /\ IdleKinds
    /\ IdleList
    /\ IdleHook

\* tweet_containers.map: scheduleTweetLoad(...) for the next container.
ScheduleLoad == Schedule(PageScheduler)

\* The map has gone over every container (it runs synchronously, before any
\* promise reaction).
AllScheduled == nextTask > MaxTasks

\* createThreadItem of container t settles; `.finally` hides the container
\* and, after a failure, `.catch` shows its tweet-failure element.
LoadFinishes(t) ==
    /\ AllScheduled
    /\ phase[t] = "running"
    /\ loaded[t] = "no"
    /\ \E w \in WidgetOutcomes :
         /\ widget' = [widget EXCEPT ![t] = w]
         /\ loaded' = [loaded EXCEPT ![t] = createThreadItem(w)]
         /\ failureShown' = [failureShown EXCEPT ![t] =
                                @ \/ createThreadItem(w) = "failed"]
    /\ hidden' = [hidden EXCEPT ![t] = TRUE]
    /\ loadOrder' = Append(loadOrder, t)
    /\ UNCHANGED <<revealOrder, endMessage>>
    /\ UNCHANGED <<schedVars, threadVars, mergeVars, apiVars,
                   pageVars, changedVars, kindVars, listVars, hookVars>>

\* The promise the userRunner returned (the end of its finally/catch chain)
\* fulfils: the catch has swallowed a failure.
SettleLoad(t) ==
    /\ loaded[t] # "no"
    /\ Settle(t)
    /\ outcome'[t].kind = catchResult(loaded[t])

\* The next step of threadTask: `.then(() => loadTask).then(() =>
\* element.classList.remove("hidden"))` for the container after the last
\* one un-hidden.
ChainStep ==
    /\ AllScheduled
    /\ Len(revealOrder) < MaxTasks
    /\ LET k == Len(revealOrder) + 1 IN
       /\ awaitsLoadTask(k)
       /\ hidden' = [hidden EXCEPT ![k] = FALSE]
       /\ revealOrder' = Append(revealOrder, k)
    /\ UNCHANGED <<loaded, widget, failureShown, loadOrder, endMessage>>
    /\ UNCHANGED <<schedVars, threadVars, mergeVars, apiVars,
                   pageVars, changedVars, kindVars, listVars, hookVars>>

\* `threadTask.then(() => { end_element.innerText = "End of Thread" })`.
SetEndMessage ==
    /\ AllScheduled
    /\ threadTaskDone(revealOrder)
    /\ endMessage = "Loading Tweets..."
    /\ endMessage' = "End of Thread"
    /\ UNCHANGED <<loaded, widget, hidden, failureShown, revealOrder, loadOrder>>
    /\ UNCHANGED <<schedVars, threadVars, mergeVars, apiVars,
                   pageVars, changedVars, kindVars, listVars, hookVars>>

NextLoad ==
    \/ ScheduleLoad
    \/ \E t \in TaskIds : LoadFinishes(t)
    \/ \E t \in TaskIds : SettleLoad(t)
    \/ \E t \in TaskIds : AllScheduled /\ Complete(t)
    \/ \E t \in TaskIds : AllScheduled /\ Deliver(t)
    \/ ChainStep
    \/ SetEndMessage

\* The script of the thread page, from the containers being found.
SpecLoad == InitLoad /\ [][NextLoad]_vars

\* ------------------------------------------------- thread.ts: claims

\* C24: containers are un-hidden in thread order: container i only after
\* its own load has finished (tweet or error) and after every container
\* before it, in whatever order the loads finished.
C24_RevealedInThreadOrder ==
    /\ \A k \in DOMAIN revealOrder :
          /\ revealOrder[k] = k
          /\ loaded[k] # "no"
          /\ ~hidden[k]
    /\ \A t \in TaskIds :
          (loaded[t] # "no" /\ t \notin DOMAIN revealOrder) => hidden[t]

\* C24 witness: a later container finished loading before the first one,
\* one load failed, and all containers are un-hidden.
C24_Witness ==
    /\ Len(revealOrder) = MaxTasks
    /\ loadOrder[1] # 1
    /\ \E t \in TaskIds : loaded[t] = "failed" /\ failureShown[t]

\* C25: the end message reads 'End of Thread' only when every container has
\* finished loading (tweet or error shown) and is un-hidden; never while a
\* load is queued or in flight.
C25_EndMessageAfterAll ==
    endMessage = "End of Thread" =>
        \A t \in TaskIds :
            /\ loaded[t] # "no"
            /\ loaded[t] = "failed" => failureShown[t]
            /\ ~hidden[t]
            /\ phase[t] = "completed"

\* C25 witness: the end message is set after loads that had to wait in the
\* queue.
C25_Witness ==
    /\ endMessage = "End of Thread"
    /\ maxConcurrent[PageScheduler] < MaxTasks
    /\ loadOrder[1] # 1

\* The reactions and the synchronous map always run; every createTweet
\* call settles.
FairnessLoad ==
    /\ WF_schedVars(ScheduleLoad)
    /\ WF_loadVars(ChainStep)
    /\ WF_loadVars(SetEndMessage)
    /\ \A t \in TaskIds :
          /\ WF_loadVars(LoadFinishes(t))
          /\ WF_schedVars(SettleLoad(t))
          /\ WF_schedVars(AllScheduled /\ Complete(t))
          /\ WF_schedVars(AllScheduled /\ Deliver(t))

FairSpecLoad == SpecLoad /\ FairnessLoad

\* Every container is un-hidden by the chain and the end message is set.
ThreadShown ==
    /\ Len(revealOrder) = MaxTasks
    /\ \A t \in TaskIds : ~hidden[t]
    /\ endMessage = "End of Thread"

C34_FailureShownIffLoadFailed ==
    \A t \in TaskIds : failureShown[t] <=> widget[t] \in {"null", "rejected"}

\* C34 witness: of three finished loads one gave an element and shows no
\* failure, one gave no element and shows it.
C34_Witness ==
    /\ \E t \in TaskIds : widget[t] = "element" /\ ~failureShown[t] /\ ~hidden[t]
    /\ \E t \in TaskIds : widget[t] = "null" /\ failureShown[t]

\* ------------------------------------------------- requireChanged

\* Arguments the returned function is called with.
ChangedArgs == {1, 2, 3}

\* What one call func(arg) can do: return a value or throw.
FuncOutcomes(arg) ==
    {[kind |-> "return", val |-> v] : v \in {1, 2}} \cup {[kind |-> "throw", val |-> arg]}

\* The returned function, called with arg: the two branches of its `if`,
\* as (func was called, what the call gave, cache afterwards).
changedCall(c, arg) ==
    IF c = NullCache \/ c.arg # arg
    THEN {[called |-> TRUE, out |-> o,
           cache |-> IF o.kind = "return" THEN [arg |-> arg, ret |-> o.val] ELSE c] :
            o \in FuncOutcomes(arg)}
    ELSE {[called |-> FALSE, out |-> [kind |-> "return", val |-> c.ret], cache |-> c]}

\* requireChanged(func) was called; its function has not been called yet.
InitChanged ==
    /\ IdleSched
    /\ IdleThread
    /\ IdleMerge
    /\ IdleApi
    /\ IdlePage
    /\ IdleLoad
    /\ IdleChanged
    /\ IdleKinds
    /\ IdleList
    /\ IdleHook

\* One call of the returned function.
CallChanged(arg) ==
    /\ wrappedCalls < MaxWrappedCalls
    /\ wrappedCalls' = wrappedCalls + 1
    /\ \E r \in changedCall(cache, arg) :
         /\ cache' = r.cache
         /\ lastCall' = [arg |-> arg, called |-> r.called, out |-> r.out,
                         prevArg |-> lastCall.arg, prevOut |-> lastCall.out]
    /\ UNCHANGED <<schedVars, threadVars, mergeVars, apiVars,
                   pageVars, loadVars, kindVars, listVars, hookVars>>

NextChanged == \E arg \in ChangedArgs : CallChanged(arg)

\* The function returned by requireChanged(func), called again and again.
SpecChanged == InitChanged /\ [][NextChanged]_vars

\* ------------------------------------------------- requireChanged: claims

\* C26: the returned function calls func exactly when it is called for the
\* first time or with an argument that differs from the argument of the
\* previous call; on a repeated argument it returns the previous result
\* without calling func.
C26_CalledIffArgChanged ==
    wrappedCalls > 0 =>
        /\ lastCall.called = (wrappedCalls = 1 \/ lastCall.arg # lastCall.prevArg)
        /\ ~lastCall.called => lastCall.out = lastCall.prevOut

\* ------------------------------------------------- promiseChain: userRunners
\* that throw or return a plain value

\* What a userRunner can do when called: return a promise, throw
\* synchronously, or return a value that is no promise.
RunnerKinds == {"promise", "throws", "value"}

\* The scheduler under examination.
SyncScheduler == 1

\* A wrapper that turns a throw into a fulfilment.
promisifyNoThrow(kind, t) == [kind |-> "fulfilled", val |-> t]

\* `new Promise((resolveTask) => resolveTask(userRunner()))` for a
\* userRunner that does not return a promise: a throw inside the executor
\* rejects the promise with the thrown error, a plain value fulfils it.
promisify(kind, t) ==
    IF kind = "throws" THEN [kind |-> "rejected", val |-> t]
    ELSE [kind |-> "fulfilled", val |-> t]

\* A userRunner that throws or returns a plain value was called and the
\* statement that called it has not finished.
SyncPending ==
    \E t \in TaskIds : phase[t] = "running" /\ runnerKind[t] # "promise"

\* The scheduler is created; what each userRunner will do is any of the
\* three kinds.
InitSync ==
    /\ InitSched
    /\ IdleThread
    /\ IdleMerge
    /\ IdleApi
    /\ IdlePage
    /\ IdleLoad
    /\ IdleChanged
    /\ IdleList
    /\ IdleHook
    /\ runnerKind \in [TaskIds -> RunnerKinds]

\* The returned function is called (not in the middle of a runner() call).
ScheduleSync == ~SyncPending /\ Schedule(SyncScheduler)

\* userRunner() has thrown or returned a plain value: the task promise is
\* settled when `runner()` returns.
SettleSync(t) ==
    /\ runnerKind[t] # "promise"
    /\ Settle(t)
    /\ outcome'[t] = promisify(runnerKind[t], t)

\* The promise a userRunner returned settles.
SettleAsync(t) ==
    /\ ~SyncPending
    /\ runnerKind[t] = "promise"
    /\ Settle(t)

\* The finally reaction of a settled task runs.
CompleteSync(t) == ~SyncPending /\ Complete(t)

\* The returned promise settles.
DeliverSync(t) == ~SyncPending /\ Deliver(t)

NextSync ==
    \/ ScheduleSync
    \/ \E t \in TaskIds : SettleSync(t)
    \/ \E t \in TaskIds : SettleAsync(t)
    \/ \E t \in TaskIds : CompleteSync(t)
    \/ \E t \in TaskIds : DeliverSync(t)

\* promiseChain with userRunners of every kind.
SpecSync == InitSync /\ [][NextSync]_vars

C27_RunnerCountsInFlight ==
    \A i \in Inst : runningTasks[i] = Cardinality(InFlight(i))

\* C28: promiseChain is work-conserving: the wait queue of a scheduler is
\* non-empty only while its running count equals maxConcurrent.
C28_WorkConserving ==
    \A i \in Inst : queue[i] # <<>> => runningTasks[i] = maxConcurrent[i]

\* C28 witness: a completion has handed its slot to a waiting task while
\* another task still waits, the scheduler being full throughout.
C28_Witness ==
    \E i \in Inst :
        /\ queue[i] # <<>>
        /\ Len(startOrder[i]) > maxConcurrent[i]
        /\ runningTasks[i] = maxConcurrent[i]

\* A sequence without repeated elements.
NoRepeats(q) == \A k \in DOMAIN q : \A l \in DOMAIN q : k # l => q[k] # q[l]

\* C29: every userRunner passed to a scheduler is invoked at most once, and
\* a runner that has left the wait queue has been invoked: a scheduled task
\* is either in the queue of its scheduler or in its start order, never in
\* both, never twice, never in neither.
C29_InvokedOnceNoneDropped ==
    /\ \A i \in Inst :
          /\ NoRepeats(startOrder[i])
          /\ NoRepeats(queue[i])
          /\ \A t \in Range(startOrder[i]) \cup Range(queue[i]) : inst[t] = i
    /\ \A t \in TaskIds :
          inst[t] # 0 =>
             (t \in Range(queue[inst[t]])) # (t \in Range(startOrder[inst[t]]))

\* C29 witness: every task went to one scheduler with a single slot, so all
\* but the first were scheduled while a task was running, waited in the
\* queue, and were invoked from it.
C29_Witness ==
    \E i \in Inst :
        /\ maxConcurrent[i] = 1
        /\ Len(startOrder[i]) = MaxTasks
        /\ queue[i] = <<>>

\* ------------------------------------------------- promiseRunner with
\* setTimeout (part_011)

\* Phases of a task in this runner, beside those of promiseChain:
\* "timer":   setTimeout(runner, 0) was called, runner has not run yet
\* "crashed": runner() ended with an uncaught exception
TimeoutSlotPhases == {"timer", "running", "settled"}

\* taskComplete of part_011: the oldest waiting runner gets a timer and the
\* count stays, or the count is decremented.
taskCompleteTimeout(i, ph) ==
    IF Len(queue[Cell(i)]) > 0 /\ runningTasks[Cell(i)] <= maxConcurrent[i]
    THEN LET s == shift(queue[Cell(i)]) IN
         /\ queue' = [queue EXCEPT ![Cell(i)] = s.rest]
         /\ phase' = [ph EXCEPT ![s.runner] = "timer"]
         /\ UNCHANGED runningTasks
    ELSE /\ runningTasks' = [runningTasks EXCEPT ![Cell(i)] = @ - 1]
         /\ phase' = ph
         /\ UNCHANGED queue

\* The function promiseRunner returned is called with the next callable.
ScheduleTimeout ==
    /\ nextTask <= MaxTasks
    /\ LET t == nextTask
           i == SyncScheduler IN
       /\ inst' = [inst EXCEPT ![t] = i]
       /\ nextTask' = nextTask + 1
       /\ IF runningTasks[Cell(i)] >= maxConcurrent[i]
          THEN /\ queue' = [queue EXCEPT ![Cell(i)] = Append(@, t)]
               /\ phase' = [phase EXCEPT ![t] = "waiting"]
               /\ UNCHANGED runningTasks
          ELSE /\ runningTasks' = [runningTasks EXCEPT ![Cell(i)] = @ + 1]
               /\ phase' = [phase EXCEPT ![t] = "timer"]
               /\ UNCHANGED queue
    /\ UNCHANGED <<maxConcurrent, outcome, returned, startOrder>>
    /\ UNCHANGED <<threadVars, mergeVars, apiVars, pageVars,
                   loadVars, changedVars, kindVars, listVars, hookVars>>

\* The timer fires and runner() runs: `const task = callable();
\* resolve(task); task.catch(ignoreErr).then(taskComplete)`.  A callable
\* that throws ends runner() before resolve; a task that is no promise
\* (null) is handed to resolve and then `task.catch` throws a TypeError.
RunTimer(t) ==
    /\ phase[t] = "timer"
    /\ startOrder' = [startOrder EXCEPT ![inst[t]] = Append(@, t)]
    /\ phase' = [phase EXCEPT ![t] =
                    IF runnerKind[t] = "promise" THEN "running" ELSE "crashed"]
    /\ returned' = [returned EXCEPT ![t] =
                    IF runnerKind[t] = "value"
                    THEN [kind |-> "fulfilled", val |-> t] ELSE @]
    /\ UNCHANGED <<maxConcurrent, runningTasks, queue, nextTask, inst, outcome>>
    /\ UNCHANGED <<threadVars, mergeVars, apiVars, pageVars,
                   loadVars, changedVars, kindVars, listVars, hookVars>>

\* The promise the callable returned settles.
SettleTimeout(t) == runnerKind[t] = "promise" /\ Settle(t)

\* `task.catch(ignoreErr).then(taskComplete)`: the reaction runs after a
\* fulfilment and after a rejection.
CompleteTimeout(t) ==
    /\ phase[t] = "settled"
    /\ taskCompleteTimeout(inst[t], [phase EXCEPT ![t] = "completed"])
    /\ UNCHANGED <<maxConcurrent, nextTask, inst, outcome, returned, startOrder>>
    /\ UNCHANGED <<threadVars, mergeVars, apiVars, pageVars,
                   loadVars, changedVars, kindVars, listVars, hookVars>>

\* The returned promise, resolved with the task, settles as the task did.
DeliverTimeout(t) ==
    /\ phase[t] \in {"settled", "completed"}
    /\ returned[t] = Pending
    /\ returned' = [returned EXCEPT ![t] = outcome[t]]
    /\ UNCHANGED <<maxConcurrent, runningTasks, queue, nextTask, inst, phase,
                   outcome, startOrder>>
    /\ UNCHANGED <<threadVars, mergeVars, apiVars, pageVars,
                   loadVars, changedVars, kindVars, listVars, hookVars>>

NextTimeout ==
    \/ ScheduleTimeout
    \/ \E t \in TaskIds : RunTimer(t)
    \/ \E t \in TaskIds : SettleTimeout(t)
    \/ \E t \in TaskIds : CompleteTimeout(t)
    \/ \E t \in TaskIds : DeliverTimeout(t)

\* promiseRunner of part_011 with callables of every kind.
SpecTimeout == InitSync /\ [][NextTimeout]_vars

\* C31: in the setTimeout-based promiseRunner every started callable has
\* taskComplete run once after its work is over, also a callable that
\* returns a plain value (null) or throws: the running count is the number
\* of tasks that hold a slot (timer set, running, or settled with the
\* completion still to run).
C31_TimeoutRunnerReleasesSlot ==
    runningTasks[SyncScheduler] =
        Cardinality({t \in TaskIds : phase[t] \in TimeoutSlotPhases})

\* ------------------------------------------------- TweetList.jsx, Tweet.jsx
\* and promiseChain.jsx

\* A tweet whose callable asks for createTweet whatever this.cancel is.
loadTweetAlways(t) == TRUE

\* The callable of EmbeddedTweet.componentDidMount:
\* `this.cancel ? null : twitterPromise.then(createTweet ...).catch(...)`.
\* TRUE: createTweet is asked for; FALSE: the callable returns null.
loadTweet(t) == ~cancel[t]

\* A wrapper that calls its handler with every result.
ifNotCancelledAlways(res) == TRUE

\* ifNotCancelled(handler)(result): the handler is called unless the result
\* is cancelError, which is passed on.
ifNotCancelled(res) == res # "cancelError"

\* A combination that is fulfilled by its first member alone.
promiseAllFirst(undo, load) == undo # "pending"

\* Promise.all([undo, tweetLoadedPromise.catch(...)]): fulfilled, with an
\* array, once both members are (the second one never rejects).
promiseAll(undo, load) == undo # "pending" /\ load

\* Promise.race([all, this.cancelTask]): cancelTask, once resolved, has its
\* reaction on every pending race queued before any combination that is
\* fulfilled later.
promiseRace(all, c) ==
    IF c THEN "cancelError" ELSE IF all THEN "all" ELSE "pending"

\* The loads handed to tweetLoading that have settled.
LoadsSettled(ret) == {t \in TaskIds : ret[t] # Pending}

\* One call of props.fullyRendered, with what held when it was made.
fullyRendered(val, st, ret, c) ==
    [val |-> val,
     pending |-> \E j \in TaskIds :
                    st.L[j] # "none" /\ j \notin LoadsSettled(ret),
     cancelled |-> c]

\* The reactions of the promises tweetLoading built, run until none is
\* left, from the first tweetLoading call on.  st is [L, A, log]: the
\* loadingTask and the undo promise of every call, and the calls of
\* fullyRendered.
RECURSIVE settleChain(_, _, _, _)
settleChain(k, st, ret, c) ==
    IF k > MaxTasks \/ (k <= MaxTasks /\ st.L[k] = "none") THEN st
    ELSE LET prev == IF k = 1 THEN "done" ELSE st.L[k - 1]
             undoRuns == st.A[k] = "pending" /\ prev # "pending"
             undoCalls == undoRuns /\ ifNotCancelled(prev)
             a == IF undoCalls THEN "done"
                  ELSE IF undoRuns THEN prev ELSE st.A[k]
             st1 == IF undoCalls
                    THEN [st EXCEPT !.A[k] = a,
                            !.log = Append(@, fullyRendered(FALSE, st, ret, c))]
                    ELSE [st EXCEPT !.A[k] = a]
             race == promiseRace(promiseAll(a, k \in LoadsSettled(ret)), c)
             thenRuns == st.L[k] = "pending" /\ race # "pending"
             thenCalls == thenRuns /\ ifNotCancelled(race)
             l == IF thenCalls THEN "done"
                  ELSE IF thenRuns THEN race ELSE st.L[k]
             st2 == IF thenCalls
                    THEN [st1 EXCEPT !.L[k] = l,
                            !.log = Append(@, fullyRendered(TRUE, st, ret, c))]
                    ELSE [st1 EXCEPT !.L[k] = l]
         IN settleChain(k + 1, st2, ret, c)

\* The promises and the call list after the reactions have run.
runReactions(st, ret, c) ==
    LET r == settleChain(1, st, ret, c) IN
    /\ loadingTask' = r.L
    /\ undoTask' = r.A
    /\ rendered' = r.log

\* runner() of promiseChain.jsx calls the callable: createTweet is asked for
\* by every tweet that starts in this step and is not cancelled.
callLoadTweet ==
    created' = [t \in TaskIds |->
                  \/ created[t]
                  \/ phase[t] # "running" /\ phase'[t] = "running" /\ loadTweet(t)]

\* A callable returned null and the runner() call it was made in has not
\* finished.
ListSyncPending == \E t \in TaskIds : phase[t] = "running" /\ ~created[t]

\* TweetList is constructed: promiseRunner(4), loadingTask =
\* Promise.resolve(), cancelled = false.  The list has one scheduler; the
\* other instance stays unused.
InitList ==
    /\ InitSched
    /\ IdleThread
    /\ IdleMerge
    /\ IdleApi
    /\ IdlePage
    /\ IdleLoad
    /\ IdleChanged
    /\ IdleKinds
    /\ IdleList
    /\ IdleHook
    /\ \A i \in Inst \ {SyncScheduler} : maxConcurrent[i] = 1

\* componentDidMount of the next EmbeddedTweet:
\* `this.tweetLoading(this.runner(loadTweet))`.
MountTweet ==
    /\ ~cancelled
    /\ ~ListSyncPending
    /\ nextTask <= MaxTasks
    /\ LET t == nextTask
           i == SyncScheduler IN
       /\ inst' = [inst EXCEPT ![t] = i]
       /\ nextTask' = nextTask + 1
       /\ IF Full(i)
          THEN /\ queue' = [queue EXCEPT ![Cell(i)] = Append(@, t)]
               /\ phase' = [phase EXCEPT ![t] = "waiting"]
               /\ UNCHANGED <<runningTasks, startOrder>>
          ELSE /\ runningTasks' = [runningTasks EXCEPT ![Cell(i)] = @ + 1]
               /\ runner(i, t, phase, startOrder)
               /\ UNCHANGED queue
       /\ callLoadTweet
       /\ LET st == [L |-> [loadingTask EXCEPT ![t] = "pending"],
                     A |-> [undoTask EXCEPT ![t] = "pending"],
                     log |-> rendered]
          IN runReactions(
                 [st EXCEPT !.log =
                     Append(@, fullyRendered(FALSE, st, returned, cancelled))],
                 returned, cancelled)
    /\ UNCHANGED <<maxConcurrent, outcome, returned, cancel, cancelled>>
    /\ UNCHANGED <<threadVars, mergeVars, apiVars, pageVars, loadVars,
                   changedVars, kindVars, hookVars>>

\* componentWillUnmount of one EmbeddedTweet (its id left tweetIds).
UnmountTweet(t) ==
    /\ ~cancelled
    /\ ~ListSyncPending
    /\ inst[t] # 0
    /\ ~cancel[t]
    /\ cancel' = [cancel EXCEPT ![t] = TRUE]
    /\ UNCHANGED <<schedVars, created, cancelled, loadingTask, undoTask,
                   rendered>>
    /\ UNCHANGED <<threadVars, mergeVars, apiVars, pageVars, loadVars,
                   changedVars, kindVars, hookVars>>

\* componentWillUnmount of TweetList: cancelFunc(); its mounted children
\* unmount with it.
UnmountList ==
    /\ ~cancelled
    /\ ~ListSyncPending
    /\ cancelled' = TRUE
    /\ cancel' = [t \in TaskIds |-> cancel[t] \/ inst[t] # 0]
    /\ runReactions([L |-> loadingTask, A |-> undoTask, log |-> rendered],
                    returned, TRUE)
    /\ UNCHANGED <<schedVars, created>>
    /\ UNCHANGED <<threadVars, mergeVars, apiVars, pageVars, loadVars,
                   changedVars, kindVars, hookVars>>

\* The task of a started tweet settles: at once with null for a cancelled
\* one, else when createTweet has settled (`.catch` turns a failure into a
\* fulfilment).
SettleTweet(t) ==
    /\ phase[t] = "running"
    /\ created[t] => ~ListSyncPending
    /\ outcome' = [outcome EXCEPT ![t] =
                      [kind |-> "fulfilled", val |-> IF created[t] THEN t ELSE 0]]
    /\ phase' = [phase EXCEPT ![t] = "settled"]
    /\ UNCHANGED <<maxConcurrent, runningTasks, queue, nextTask, inst,
                   returned, startOrder>>
    /\ UNCHANGED listVars
    /\ UNCHANGED <<threadVars, mergeVars, apiVars, pageVars, loadVars,
                   changedVars, kindVars, hookVars>>

\* `task.finally(() => launchNextTask())` runs for a settled task.
CompleteTweet(t) ==
    /\ ~ListSyncPending
    /\ phase[t] = "settled"
    /\ taskComplete(inst[t], [phase EXCEPT ![t] = "completed"])
    /\ callLoadTweet
    /\ UNCHANGED <<maxConcurrent, nextTask, inst, outcome, returned>>
    /\ UNCHANGED <<cancel, cancelled, loadingTask, undoTask, rendered>>
    /\ UNCHANGED <<threadVars, mergeVars, apiVars, pageVars, loadVars,
                   changedVars, kindVars, hookVars>>

\* The promise this.runner(loadTweet) returned settles, and the reactions
\* tweetLoading attached to it run.
DeliverTweet(t) ==
    /\ ~ListSyncPending
    /\ phase[t] = "completed"
    /\ returned[t] = Pending
    /\ returned' = [returned EXCEPT ![t] = FinallyResult(outcome[t])]
    /\ runReactions([L |-> loadingTask, A |-> undoTask, log |-> rendered],
                    returned', cancelled)
    /\ UNCHANGED <<maxConcurrent, runningTasks, queue, nextTask, inst, phase,
                   outcome, startOrder>>
    /\ UNCHANGED <<cancel, created, cancelled>>
    /\ UNCHANGED <<threadVars, mergeVars, apiVars, pageVars, loadVars,
                   changedVars, kindVars, hookVars>>

NextList ==
    \/ MountTweet
    \/ \E t \in TaskIds : UnmountTweet(t)
    \/ UnmountList
    \/ \E t \in TaskIds : SettleTweet(t)
    \/ \E t \in TaskIds : CompleteTweet(t)
    \/ \E t \in TaskIds : DeliverTweet(t)

\* TweetList.jsx with its tweets, from construction on.
SpecList == InitList /\ [][NextList]_vars

\* C32: an EmbeddedTweet that unmounted while its load waited in the queue
\* is started without createTweet being asked for, and its slot is
\* released: the running count stays the number of tasks that hold a slot,
\* and no runner waits while a slot is free.
C32_CancelledWaitingTweetSkipsCreate ==
    [][/\ \A t \in TaskIds :
             (cancel[t] /\ phase[t] = "waiting") => ~created'[t]
       /\ runningTasks'[SyncScheduler] =
             Cardinality({t \in TaskIds : phase'[t] \in {"running", "settled"}})
       /\ (Len(queue'[SyncScheduler]) > 0) =>
             runningTasks'[SyncScheduler] = maxConcurrent'[SyncScheduler]]_vars

\* C32 witness: a tweet was cancelled in the queue, was started and
\* completed without createTweet, and a tweet queued behind it was started
\* and asked for createTweet.
C32_Witness ==
    \E t \in TaskIds : \E u \in TaskIds :
        /\ cancel[t]
        /\ ~created[t]
        /\ phase[t] = "completed"
        /\ StartPos(SyncScheduler, t) > 1
        /\ StartPos(SyncScheduler, u) > StartPos(SyncScheduler, t)
        /\ created[u]

\* C35: after cancelFunc has run, props.fullyRendered is not called again.
C35_NoReportAfterUnmount ==
    \A n \in 1..Len(rendered) : ~rendered[n].cancelled

\* C35 witness: the list was unmounted with a load pending and an earlier
\* one reported; the pending load has settled since.
C35_Witness ==
    /\ cancelled
    /\ \E t \in TaskIds : loadingTask[t] = "cancelError" /\ returned[t] # Pending
    /\ \E t \in TaskIds : loadingTask[t] = "done"

\* C36 as stated: fullyRendered(true) is never called while a load handed
\* to tweetLoading is still pending.
C36_TrueOnlyWhenAllSettled ==
    \A n \in 1..Len(rendered) : rendered[n].val => ~rendered[n].pending

\* C36 amended: once the reactions have run, the value reported last is
\* true only if every load handed to tweetLoading has settled; and while
\* the list is mounted it is true whenever they all have.
C36_LastReportTrueOnlyWhenAllSettled ==
    LET allSettled == \A t \in TaskIds :
                         loadingTask[t] # "none" => returned[t] # Pending
    IN Len(rendered) > 0 =>
          /\ rendered[Len(rendered)].val => allSettled
          /\ (~cancelled /\ allSettled) => rendered[Len(rendered)].val

\* C36 witness: the first load settled while a later one was pending:
\* true was reported and taken back; the later load is still pending.
C36_Witness ==
    /\ Len(rendered) > 1
    /\ rendered[Len(rendered) - 1].val
    /\ rendered[Len(rendered) - 1].pending
    /\ ~rendered[Len(rendered)].val
    /\ \E t \in TaskIds : loadingTask[t] = "pending"

\* ------------------------------------------------- TweetList.tsx, Tweet.tsx

\* `tweetsRendered.size === tweetIds.length` (in the earlier TweetList of the
\* file: the count of true values in tweetsRendered).
isFullyRendered(set) == Cardinality(set) = MaxTasks

\* TweetList and its tweets have rendered for the first time.
InitHook ==
    /\ InitSched
    /\ \A i \in Inst : maxConcurrent[i] = 1
    /\ IdleThread
    /\ IdleMerge
    /\ IdleApi
    /\ IdlePage
    /\ IdleLoad
    /\ IdleChanged
    /\ IdleKinds
    /\ IdleList
    /\ IdleHook

\* The ref callback has set node and the first effect of EmbeddedTweet runs:
\* createTweet is called.
StartTweet(t) ==
    /\ tweetTask[t] = "none"
    /\ tweetTask' = [tweetTask EXCEPT ![t] = "pending"]
    /\ UNCHANGED <<isRendered, renderedDue, tweetsRendered, fullyDue,
                   hookReports>>
    /\ UNCHANGED <<schedVars, threadVars, mergeVars, apiVars, pageVars,
                   loadVars, changedVars, kindVars, listVars>>

\* createTweet settles; `.then(tweet => { setIsRendered(true); ... })` runs
\* after a fulfilment only, and a changed isRendered makes the second
\* effect due.
CreateTweetSettles(t) ==
    /\ tweetTask[t] = "pending"
    /\ \E o \in {"fulfilled", "rejected"} :
          /\ tweetTask' = [tweetTask EXCEPT ![t] = o]
          /\ isRendered' = [isRendered EXCEPT ![t] = @ \/ o = "fulfilled"]
    /\ renderedDue' = [renderedDue EXCEPT ![t] = @ \/ isRendered'[t] # isRendered[t]]
    /\ UNCHANGED <<tweetsRendered, fullyDue, hookReports>>
    /\ UNCHANGED <<schedVars, threadVars, mergeVars, apiVars, pageVars,
                   loadVars, changedVars, kindVars, listVars>>

\* The second effect of EmbeddedTweet: `rendered(isRendered)`, which is
\* `setTweetsRendered(state => isRendered ? state.add(id) : state.remove(id))`.
RenderedEffect(t) ==
    /\ renderedDue[t]
    /\ renderedDue' = [renderedDue EXCEPT ![t] = FALSE]
    /\ tweetsRendered' = IF isRendered[t] THEN tweetsRendered \cup {t}
                         ELSE tweetsRendered \ {t}
    /\ fullyDue' = (fullyDue \/ isFullyRendered(tweetsRendered') #
                                   isFullyRendered(tweetsRendered))
    /\ UNCHANGED <<tweetTask, isRendered, hookReports>>
    /\ UNCHANGED <<schedVars, threadVars, mergeVars, apiVars, pageVars,
                   loadVars, changedVars, kindVars, listVars>>

\* The effect of TweetList: `fullyRendered(isFullyRendered)`.
FullyRenderedEffect ==
    /\ fullyDue
    /\ fullyDue' = FALSE
    /\ hookReports' = Append(hookReports, isFullyRendered(tweetsRendered))
    /\ UNCHANGED <<tweetTask, isRendered, renderedDue, tweetsRendered>>
    /\ UNCHANGED <<schedVars, threadVars, mergeVars, apiVars, pageVars,
                   loadVars, changedVars, kindVars, listVars>>

NextHook ==
    \/ \E t \in TaskIds : StartTweet(t)
    \/ \E t \in TaskIds : CreateTweetSettles(t)
    \/ \E t \in TaskIds : RenderedEffect(t)
    \/ FullyRenderedEffect

\* The hook-based TweetList, from its first render on.
SpecHook == InitHook /\ [][NextHook]_vars

\* Every createTweet call has settled and no effect is left to run.
HookAtRest ==
    /\ \A t \in TaskIds :
          tweetTask[t] \in {"fulfilled", "rejected"} /\ ~renderedDue[t]
    /\ ~fullyDue

\* C37: once every createTweet call of the list has settled, fulfilled or
\* rejected, and the effects have run, the value last passed to
\* fullyRendered is true.
C37_AllSettledReportsFullyRendered ==
    HookAtRest =>
        /\ Len(hookReports) > 0
        /\ hookReports[Len(hookReports)]

=============================================================================
